---- MODULE Spec2Model ----
(***************************************************************************)
(* Model of crates/solver/src/lib.rs: the two exported entry points        *)
(* solve and reproject_points, each invoked by up to MaxCalls concurrent   *)
(* callers.  A call owns one frame (its argument, its locals, its return   *)
(* value); the crate has no static or global item, so the frames are the   *)
(* whole state.                                                            *)
(*                                                                         *)
(* Numbers.  An f64 is represented by the integer 2*x (fixed point, unit   *)
(* one half), which is exact for every value the model produces: JSON      *)
(* numbers of the inputs are whole, and the only arithmetic of the source  *)
(* is a division by 2.0.                                                   *)
(*                                                                         *)
(* JSON text.  A request string is represented by the document it spells:  *)
(* wellFormed says whether it is JSON at all; the members the code can     *)
(* read are given with their kind (absent, a string, a number); the        *)
(* correspondences are the ordered ids of the observations.  Everything    *)
(* else a correspondence carries (pixel, weight, world position) is left   *)
(* out: SolveRequest declares the field image only and serde skips the     *)
(* members a struct does not declare.                                      *)
(***************************************************************************)
EXTENDS Integers, Sequences, FiniteSets, TLC

VARIABLES frames

vars == <<frames>>

---------------------------------------------------------------------------
(* Bounds *)

\* concurrent invocations
MaxCalls == 2
\* correspondences carried by a solve request
MaxCorr == 6
\* 3D points carried by a reprojection request
MaxPoints == 2

CallIds == 1..MaxCalls

\* image sizes <<width, height>> (JSON numbers) the requests draw from
Dims == {<<640, 480>>, <<1920, 1080>>}

---------------------------------------------------------------------------
(* f64 *)

\* the f64 of the whole number n
F64(n) == 2 * n

\* x / 2.0
Half(x) == x \div 2

---------------------------------------------------------------------------
(* Request documents *)

None == [none |-> TRUE]

Absent == [kind |-> "absent", num |-> 0]
Text == [kind |-> "string", num |-> 0]
Number(n) == [kind |-> "number", num |-> n]

NoImage == [kind |-> "absent", width |-> Absent, height |-> Absent]
ImageObject(w, h) == [kind |-> "object", width |-> w, height |-> h]

\* ids of the observations of a request with n correspondences
Ids(n) == [i \in 1..n |-> i]

Garbage == [wellFormed |-> FALSE, image |-> NoImage, correspondences |-> <<>>]

SolveDoc(img, n) == [wellFormed |-> TRUE, image |-> img, correspondences |-> Ids(n)]

BadImages ==
    { NoImage,
      ImageObject(Absent, Number(1080)),
      ImageObject(Text, Number(1080)),
      ImageObject(Number(1920), Absent),
      ImageObject(Number(1920), Text) }

GoodImages == { ImageObject(Number(d[1]), Number(d[2])) : d \in Dims }

SolveRequests ==
    {Garbage}
    \cup { SolveDoc(img, 0) : img \in BadImages }
    \cup { SolveDoc(img, n) : img \in GoodImages, n \in 0..MaxCorr }

GarbagePoints == [wellFormed |-> FALSE, points |-> <<>>]

ReprojectRequests ==
    {GarbagePoints} \cup { [wellFormed |-> TRUE, points |-> Ids(n)] : n \in 0..MaxPoints }

---------------------------------------------------------------------------
(* serde_json *)

ParseOk(v) == [ok |-> TRUE, value |-> v, error |-> ""]
ParseErr(e) == [ok |-> FALSE, value |-> None, error |-> e]

\* Deserialize for Image: both members are f64.  A member of another type
\* is refused while the object is read, a missing one once it has been read.
ImageFromJson(img) ==
    IF img.width.kind = "string" \/ img.height.kind = "string"
    THEN ParseErr("invalid type: string, expected f64")
    ELSE IF img.width.kind = "absent" THEN ParseErr("missing field width")
    ELSE IF img.height.kind = "absent" THEN ParseErr("missing field height")
    ELSE ParseOk([width |-> F64(img.width.num), height |-> F64(img.height.num)])

\* serde_json::from_str::<SolveRequest>: the members SolveRequest does not
\* declare (the correspondences among them) are skipped.
FromStrWithoutImage(doc) ==
    IF ~doc.wellFormed THEN ParseErr("expected value")
    ELSE LET img == IF doc.image.kind = "absent"
                     THEN ImageObject(Number(0), Number(0)) ELSE doc.image
             i == ImageFromJson(img)
         IN IF i.ok THEN ParseOk([image |-> i.value]) ELSE i

from_str(doc) ==
    IF ~doc.wellFormed THEN ParseErr("expected value")
    ELSE IF doc.image.kind = "absent" THEN ParseErr("missing field image")
    ELSE LET i == ImageFromJson(doc.image)
         IN IF i.ok THEN ParseOk([image |-> i.value]) ELSE i

\* serde_json::to_string of a SolveResponse: a struct of finite f64, strings
\* and sequences of them always encodes; the value stands for its text.
to_string(resp) == ParseOk(resp)

---------------------------------------------------------------------------
(* Results *)

Ok(body) == [tag |-> "Ok", body |-> body, msg |-> <<>>]
Err(what, e) == [tag |-> "Err", body |-> None, msg |-> <<what, e>>]

StubWarning == "Stub solver response from WASM"

SolveResponseNoWarning(req) ==
    [ pose |-> [lat |-> F64(0), lon |-> F64(0), alt |-> F64(0),
                yawDeg |-> F64(0), pitchDeg |-> F64(0), rollDeg |-> F64(0)],
      intrinsics |-> [focalPx |-> F64(1000),
                      cx |-> Half(req.image.width),
                      cy |-> Half(req.image.height)],
      covariance |-> [matrix |-> <<>>, labels |-> <<>>],
      diagnostics |-> [rmsePx |-> F64(0), inlierRatio |-> F64(0),
                       residualsPx |-> <<>>, inlierIds |-> <<>>,
                       warnings |-> <<>>] ]

SolveResponseWidthAsCx(req) ==
    [ pose |-> [lat |-> F64(0), lon |-> F64(0), alt |-> F64(0),
                yawDeg |-> F64(0), pitchDeg |-> F64(0), rollDeg |-> F64(0)],
      intrinsics |-> [focalPx |-> F64(1000),
                      cx |-> req.image.width,
                      cy |-> Half(req.image.height)],
      covariance |-> [matrix |-> <<>>, labels |-> <<>>],
      diagnostics |-> [rmsePx |-> F64(0), inlierRatio |-> F64(0),
                       residualsPx |-> <<>>, inlierIds |-> <<>>,
                       warnings |-> <<StubWarning>>] ]

\* the SolveResponse literal of solve
SolveResponse(req) ==
    [ pose |-> [lat |-> F64(0), lon |-> F64(0), alt |-> F64(0),
                yawDeg |-> F64(0), pitchDeg |-> F64(0), rollDeg |-> F64(0)],
      intrinsics |-> [focalPx |-> F64(1000),
                      cx |-> Half(req.image.width),
                      cy |-> Half(req.image.height)],
      covariance |-> [matrix |-> <<>>, labels |-> <<>>],
      diagnostics |-> [rmsePx |-> F64(0), inlierRatio |-> F64(0),
                       residualsPx |-> <<>>, inlierIds |-> <<>>,
                       warnings |-> <<StubWarning>>] ]

\* the string literal reproject_points returns
ReprojectResponse == [pixels |-> <<>>, warnings |-> <<"Not implemented">>]

---------------------------------------------------------------------------
(* Calls *)

IdleFrame ==
    [op |-> "none", req_json |-> None, pc |-> "idle",
     req |-> None, resp |-> None, ret |-> None]

Init == frames = [c \in CallIds |-> IdleFrame]

\* the host calls solve(req_json)
InvokeSolve(c) ==
    /\ frames[c].pc = "idle"
    /\ \E j \in SolveRequests :
         frames' = [frames EXCEPT ![c] =
                      [IdleFrame EXCEPT !.op = "solve", !.req_json = j, !.pc = "parse"]]

\* let req: SolveRequest = serde_json::from_str(&req_json).map_err(..)?;
SolveParse(c) ==
    /\ frames[c].op = "solve"
    /\ frames[c].pc = "parse"
    /\ LET r == from_str(frames[c].req_json)
       IN frames' = [frames EXCEPT ![c] =
            IF r.ok
            THEN [@ EXCEPT !.req = r.value, !.pc = "build"]
            ELSE [@ EXCEPT !.ret = Err("Invalid request JSON", r.error), !.pc = "done"]]

\* a build step that numbers its warning by the calls in flight beside it
SolveBuildShared(c) ==
    /\ frames[c].op = "solve"
    /\ frames[c].pc = "build"
    /\ LET busy == Cardinality({d \in CallIds \ {c} : frames[d].pc # "idle"})
           r == SolveResponse(frames[c].req)
       IN frames' = [frames EXCEPT ![c] =
            [@ EXCEPT !.resp = [r EXCEPT !.diagnostics.warnings = <<StubWarning, busy>>],
                      !.pc = "serialize"]]

\* let resp = SolveResponse { .. };
SolveBuild(c) ==
    /\ frames[c].op = "solve"
    /\ frames[c].pc = "build"
    /\ frames' = [frames EXCEPT ![c] =
         [@ EXCEPT !.resp = SolveResponse(frames[c].req), !.pc = "serialize"]]

\* serde_json::to_string(&resp).map_err(..)
SolveSerialize(c) ==
    /\ frames[c].op = "solve"
    /\ frames[c].pc = "serialize"
    /\ LET s == to_string(frames[c].resp)
       IN frames' = [frames EXCEPT ![c] =
            [@ EXCEPT !.ret = IF s.ok THEN Ok(s.value) ELSE Err("Serialize error", s.error),
                      !.pc = "done"]]

\* the host calls reproject_points(_req_json)
InvokeReproject(c) ==
    /\ frames[c].pc = "idle"
    /\ \E j \in ReprojectRequests :
         frames' = [frames EXCEPT ![c] =
                      [IdleFrame EXCEPT !.op = "reproject_points", !.req_json = j,
                                        !.pc = "body"]]

\* Ok("{\"pixels\": [], \"warnings\": [\"Not implemented\"]}".to_string())
ReprojectBody(c) ==
    /\ frames[c].op = "reproject_points"
    /\ frames[c].pc = "body"
    /\ frames' = [frames EXCEPT ![c] = [@ EXCEPT !.ret = Ok(ReprojectResponse), !.pc = "done"]]

\* the result is handed to the host and the call's values are dropped
Return(c) ==
    /\ frames[c].pc = "done"
    /\ frames' = [frames EXCEPT ![c] = IdleFrame]

Next ==
    \E c \in CallIds :
        \/ InvokeSolve(c)
        \/ SolveParse(c)
        \/ SolveBuild(c)
        \/ SolveSerialize(c)
        \/ InvokeReproject(c)
        \/ ReprojectBody(c)
        \/ Return(c)

Spec == Init /\ [][Next]_vars

---------------------------------------------------------------------------
(* Vocabulary of the properties *)

\* the smallest correspondence count the specification names for the
\* closed-form minimal method
MinimalCount == 3

\* the fixed ordered parameter labels of a covariance
ParamLabels == <<"x", "y", "z", "yaw", "pitch", "roll", "focal", "cx", "cy">>

Range(s) == { s[i] : i \in DOMAIN s }

\* the document spells a solve request: JSON, with an image object whose
\* width and height are numbers
Parsable(doc) ==
    /\ doc.wellFormed
    /\ doc.image.kind = "object"
    /\ doc.image.width.kind = "number"
    /\ doc.image.height.kind = "number"

IsSolve(c) == frames[c].op = "solve"
IsReproject(c) == frames[c].op = "reproject_points"
Done(c) == frames[c].pc = "done"
Succeeded(c) == Done(c) /\ frames[c].ret.tag = "Ok"

\* the scenario of 6 noise-free correspondences on a 1920x1080 image
ScenarioRequest == SolveDoc(ImageObject(Number(1920), Number(1080)), 6)

KnownPose ==
    [lat |-> F64(37), lon |-> F64(-122), alt |-> F64(100),
     yawDeg |-> F64(0), pitchDeg |-> F64(0), rollDeg |-> F64(0)]

Symmetric(m, n) ==
    \A i \in 1..n : \A j \in 1..n : m[(i - 1) * n + j] = m[(j - 1) * n + i]

---------------------------------------------------------------------------
(* Properties *)

\* C1: a solve call whose request cannot be parsed never holds a parsed
\* request or any part of a SolveResponse, never reaches the build or the
\* serialize step, and ends with an error that carries the message
\* "Invalid request JSON" with the parser's reason and no response payload.
C1_UnparsableSolveFails ==
    \A c \in CallIds :
        (IsSolve(c) /\ ~Parsable(frames[c].req_json)) =>
            /\ frames[c].req = None
            /\ frames[c].resp = None
            /\ frames[c].pc \in {"parse", "done"}
            /\ ~Done(c) => frames[c].ret = None
            /\ Done(c) =>
                 /\ frames[c].ret.tag = "Err"
                 /\ frames[c].ret.body = None
                 /\ frames[c].ret.msg[1] = "Invalid request JSON"
                 /\ frames[c].ret.msg[2] # ""

C1_Witness ==
    \E c \in CallIds :
        /\ IsSolve(c) /\ Done(c)
        /\ frames[c].req_json.wellFormed
        /\ ~Parsable(frames[c].req_json)
        /\ frames[c].ret.tag = "Err"

\* C2: a finished solve call on a parsable request with fewer than
\* MinimalCount correspondences (none included) has failed and carries no
\* response payload.
C2_TooFewCorrespondencesFail ==
    \A c \in CallIds :
        ( /\ IsSolve(c) /\ Done(c)
          /\ Parsable(frames[c].req_json)
          /\ Len(frames[c].req_json.correspondences) < MinimalCount ) =>
            /\ frames[c].ret.tag = "Err"
            /\ frames[c].ret.body = None

\* C3: in a successful solve response residualsPx has one entry per
\* observation of the request.
C3_ResidualsAlignedToObservations ==
    \A c \in CallIds :
        (IsSolve(c) /\ Succeeded(c)) =>
            Len(frames[c].ret.body.diagnostics.residualsPx)
                = Len(frames[c].req_json.correspondences)

\* C4: in a successful reproject_points response the pixels sequence has one
\* entry per 3D point of the request, in input order.
C4_PixelsAlignedToPoints ==
    \A c \in CallIds :
        (IsReproject(c) /\ Succeeded(c)) =>
            Len(frames[c].ret.body.pixels) = Len(frames[c].req_json.points)

\* C5: a finished reproject_points call whose request is not parsable has
\* failed and carries no response payload.
C5_UnparsableReprojectFails ==
    \A c \in CallIds :
        (IsReproject(c) /\ Done(c) /\ ~frames[c].req_json.wellFormed) =>
            /\ frames[c].ret.tag = "Err"
            /\ frames[c].ret.body = None

\* C6: a finished solve call on the scenario request has succeeded with the
\* known pose, focalPx 1000, principal point (960, 540), RMSE 0,
\* inlierRatio 1 and no warnings.
C6_ScenarioRecoversKnownPose ==
    \A c \in CallIds :
        (IsSolve(c) /\ Done(c) /\ frames[c].req_json = ScenarioRequest) =>
            /\ frames[c].ret.tag = "Ok"
            /\ frames[c].ret.body.pose = KnownPose
            /\ frames[c].ret.body.intrinsics
                 = [focalPx |-> F64(1000), cx |-> F64(960), cy |-> F64(540)]
            /\ frames[c].ret.body.diagnostics.rmsePx = F64(0)
            /\ frames[c].ret.body.diagnostics.inlierRatio = F64(1)
            /\ frames[c].ret.body.diagnostics.warnings = <<>>

\* C7: in a successful solve response inlierIds are observation ids of the
\* request, and inlierRatio is the quotient of their number by the number n
\* of correspondences (which has no value when n = 0), within [0,1].
C7_InlierRatioIsQuotient ==
    \A c \in CallIds :
        (IsSolve(c) /\ Succeeded(c)) =>
            LET d == frames[c].ret.body.diagnostics
                n == Len(frames[c].req_json.correspondences)
            IN /\ Range(d.inlierIds) \subseteq Range(frames[c].req_json.correspondences)
               /\ n # 0
               /\ d.inlierRatio * n = F64(Len(d.inlierIds))
               /\ d.inlierRatio >= F64(0)
               /\ d.inlierRatio <= F64(1)

\* C8: a call's locals and result are a function of its own operation,
\* request and position: two calls of the same operation on the same request
\* at the same step hold the same values, whatever the other calls do or did.
C8_NoCrossCallState ==
    \A c \in CallIds : \A d \in CallIds :
        ( /\ frames[c].op = frames[d].op
          /\ frames[c].req_json = frames[d].req_json
          /\ frames[c].pc = frames[d].pc ) => frames[c] = frames[d]

C8_Witness ==
    \E c \in CallIds : \E d \in CallIds :
        /\ c # d
        /\ IsSolve(c) /\ IsSolve(d)
        /\ Succeeded(c) /\ Succeeded(d)
        /\ frames[c].req_json = frames[d].req_json

\* C9: a finished solve call on a parsable request has succeeded, and its
\* covariance is either non-empty, labelled by ParamLabels with a symmetric
\* square matrix, or empty (no entries, no labels) with at least one warning.
C9_CovarianceEmptyWithWarning ==
    \A c \in CallIds :
        /\ (IsSolve(c) /\ Done(c) /\ Parsable(frames[c].req_json)) =>
               frames[c].ret.tag = "Ok"
        /\ (IsSolve(c) /\ Succeeded(c)) =>
               LET cov == frames[c].ret.body.covariance
                   w == frames[c].ret.body.diagnostics.warnings
                   n == Len(ParamLabels)
               IN \/ /\ Len(cov.matrix) > 0
                     /\ cov.labels = ParamLabels
                     /\ Len(cov.matrix) = n * n
                     /\ Symmetric(cov.matrix, n)
                  \/ /\ cov.matrix = <<>>
                     /\ cov.labels = <<>>
                     /\ Len(w) >= 1

C9_Witness ==
    \E c \in CallIds :
        /\ IsSolve(c) /\ Succeeded(c)
        /\ frames[c].ret.body.covariance.matrix = <<>>
        /\ Len(frames[c].ret.body.diagnostics.warnings) >= 1

\* C10: a successful solve response has focalPx = 1000 and the principal
\* point at half the request's width and height; two successful responses
\* have the same pose, covariance and diagnostics, and are equal when the
\* requests have the same image size.
C10_ResponseDependsOnImageSizeOnly ==
    \A c \in CallIds :
        (IsSolve(c) /\ Succeeded(c)) =>
            LET b == frames[c].ret.body
                img == frames[c].req_json.image
            IN /\ b.intrinsics.focalPx = F64(1000)
               /\ b.intrinsics.focalPx > 0
               /\ 2 * b.intrinsics.cx = F64(img.width.num)
               /\ 2 * b.intrinsics.cy = F64(img.height.num)
               /\ \A d \in CallIds :
                    (IsSolve(d) /\ Succeeded(d)) =>
                        /\ frames[d].ret.body.pose = b.pose
                        /\ frames[d].ret.body.covariance = b.covariance
                        /\ frames[d].ret.body.diagnostics = b.diagnostics
                        /\ frames[d].req_json.image = img => frames[d].ret = frames[c].ret

C10_Witness ==
    \E c \in CallIds : \E d \in CallIds :
        /\ IsSolve(c) /\ IsSolve(d)
        /\ Succeeded(c) /\ Succeeded(d)
        /\ frames[c].req_json.image = frames[d].req_json.image
        /\ frames[c].req_json.correspondences # frames[d].req_json.correspondences

====
